---- MODULE Spec2Model ----
(***************************************************************************)
(* The optimisation run of h2-groundstate-energy/submission/start_here     *)
(* (a notebook executed top to bottom): the settings cell, the             *)
(* convergence loop around optimizer.step_and_cost and cost_fn, the two    *)
(* prints and the cell that sets the notebook's output.                    *)
(*                                                                         *)
(* The optimizer and the cost function are PennyLane code: what they       *)
(* return is a nondeterministic choice from small sets, and either call    *)
(* may raise.  Energies are counted in units of the convergence tolerance  *)
(* (1e-06 Ha), so convergence_tolerance is 1 here; circuit parameters are  *)
(* abstract points 0..MaxParam.                                            *)
(***************************************************************************)
EXTENDS Integers, Sequences, FiniteSets, TLC

\* ---------------------------------------------------------------- bounds
MaxParam == 1
MaxCost == 3

Params == 0..MaxParam
Costs == 0..MaxCost

\* ------------------------------------------------------ program constants
\* max_iterations = 500
max_iterations == 500
\* convergence_tolerance = 1e-06, the unit energies are counted in
convergence_tolerance == 1
\* theta = np.array(np.pi / 2): the abstract point the run starts from
initial_theta == 0
\* "We carry out the optimization over a maximum of 100 steps"
documented_max_steps == 100

\* A notebook name that no cell has assigned yet.
Unbound == <<>>

VARIABLES
    pc,            \* the statement the run is at
    it,            \* values range(max_iterations) has yielded: loop bodies begun
    theta,         \* the notebook's theta
    prev_energy,   \* the notebook's prev_energy: Unbound or <<cost>>
    energy,        \* the notebook's energy: Unbound or <<cost>>
    printed,       \* what the two prints wrote: Unbound or <<energy, theta>>
    output,        \* the notebook's output: Unbound or <<cost>>
    exit,          \* how the for loop was left: "none", "break", "exhausted"
    stepCalls,     \* history: optimizer.step_and_cost calls made by the loop
    stepDone,      \* history: those that returned
    evalCalls,     \* history: cost_fn calls made by the loop
    evalDone,      \* history: those that returned
    stepArg,       \* history: the argument of the last step_and_cost call
    stepRet,       \* history: what it returned, <<theta, cost>>
    evalArg,       \* history: the argument of the last cost_fn call
    evalRet,       \* history: what it returned, <<cost>>
    headTheta,     \* history: theta when the current loop body began
    firstHit,      \* history: first iteration whose two costs were within tolerance
    descending     \* history: so far the cost never rose and was read consistently

vars == <<pc, it, theta, prev_energy, energy, printed, output, exit,
          stepCalls, stepDone, evalCalls, evalDone, stepArg, stepRet,
          evalArg, evalRet, headTheta, firstHit, descending>>

calls == <<stepCalls, stepDone, evalCalls, evalDone>>
lastCall == <<stepArg, stepRet, evalArg, evalRet>>
history == <<calls, lastCall, firstHit, descending>>
allHistory == <<history, headTheta>>

\* |a - b| <= tolerance, as the claims state it (not the code's expression)
WithinTolerance(a, b) ==
    a - b <= convergence_tolerance /\ b - a <= convergence_tolerance

\* np.abs
Abs(x) == IF x < 0 THEN 0 - x ELSE x

\* Mutants of the stopping test.
ConvergedStrict(e, p) == Abs(e - p) < convergence_tolerance
ConvergedSigned(e, p) == e - p <= convergence_tolerance

\* np.abs(energy - prev_energy) <= convergence_tolerance
Converged(e, p) == Abs(e - p) <= convergence_tolerance

Init ==
    /\ pc = "for"
    /\ it = 0
    /\ theta = initial_theta
    /\ prev_energy = Unbound
    /\ energy = Unbound
    /\ printed = Unbound
    /\ output = Unbound
    /\ exit = "none"
    /\ stepCalls = 0 /\ stepDone = 0 /\ evalCalls = 0 /\ evalDone = 0
    /\ stepArg = Unbound /\ stepRet = Unbound
    /\ evalArg = Unbound /\ evalRet = Unbound
    /\ headTheta = Unbound
    /\ firstHit = 0
    /\ descending = TRUE

\* Mutant: the range yields one value too many.
ForNextOffByOne ==
    /\ pc = "for"
    /\ it <= max_iterations
    /\ it' = it + 1
    /\ headTheta' = <<theta>>
    /\ pc' = "step"
    /\ UNCHANGED <<theta, prev_energy, energy, printed, output, exit, history>>

\* for _ in range(max_iterations): the range yields its next value
ForNext ==
    /\ pc = "for"
    /\ it < max_iterations
    /\ it' = it + 1
    /\ headTheta' = <<theta>>
    /\ pc' = "step"
    /\ UNCHANGED <<theta, prev_energy, energy, printed, output, exit, history>>

\* Mutant: running out of iterations is an error.
ForExhaustedRaises ==
    /\ pc = "for"
    /\ it >= max_iterations
    /\ pc' = "raised"
    /\ UNCHANGED <<it, theta, prev_energy, energy, printed, output, exit,
                   allHistory>>

\* for _ in range(max_iterations): the range is exhausted, the loop ends
ForExhausted ==
    /\ pc = "for"
    /\ it >= max_iterations
    /\ exit' = "exhausted"
    /\ pc' = "print"
    /\ UNCHANGED <<it, theta, prev_energy, energy, printed, output, allHistory>>

\* theta, prev_energy = optimizer.step_and_cost(cost_fn, theta): it returns
StepAndCost ==
    /\ pc = "step"
    /\ \E t \in Params, c \in Costs :
         /\ theta' = t
         /\ prev_energy' = <<c>>
         /\ stepArg' = <<theta>>
         /\ stepRet' = <<t, c>>
         /\ descending' = (descending /\ (energy = Unbound \/ energy = <<c>>))
    /\ stepCalls' = stepCalls + 1
    /\ stepDone' = stepDone + 1
    /\ pc' = "cost"
    /\ UNCHANGED <<it, energy, printed, output, exit, evalCalls, evalDone,
                   evalArg, evalRet, firstHit, headTheta>>

\* Mutant: a failed step is tried again.
StepAndCostRetried ==
    /\ pc = "step"
    /\ stepCalls' = stepCalls + 1
    /\ stepArg' = <<theta>>
    /\ pc' = "step"
    /\ UNCHANGED <<it, theta, prev_energy, energy, printed, output, exit,
                   stepDone, evalCalls, evalDone, stepRet, evalArg, evalRet,
                   firstHit, descending, headTheta>>

\* optimizer.step_and_cost(cost_fn, theta) raises: nothing is assigned
StepAndCostRaises ==
    /\ pc = "step"
    /\ stepCalls' = stepCalls + 1
    /\ stepArg' = <<theta>>
    /\ pc' = "raised"
    /\ UNCHANGED <<it, theta, prev_energy, energy, printed, output, exit,
                   stepDone, evalCalls, evalDone, stepRet, evalArg, evalRet,
                   firstHit, descending, headTheta>>

\* Mutant: the cost is measured at the parameters the step started from.
CostFnAtOldTheta ==
    /\ pc = "cost"
    /\ \E c \in Costs :
         /\ energy' = <<c>>
         /\ evalArg' = stepArg
         /\ evalRet' = <<c>>
         /\ firstHit' = IF firstHit = 0 /\ WithinTolerance(c, prev_energy[1])
                        THEN it ELSE firstHit
         /\ descending' = (descending /\ c <= prev_energy[1])
    /\ evalCalls' = evalCalls + 1
    /\ evalDone' = evalDone + 1
    /\ pc' = "test"
    /\ UNCHANGED <<it, theta, prev_energy, printed, output, exit, stepCalls,
                   stepDone, stepArg, stepRet, headTheta>>

\* energy = cost_fn(theta): it returns
CostFn ==
    /\ pc = "cost"
    /\ \E c \in Costs :
         /\ energy' = <<c>>
         /\ evalArg' = <<theta>>
         /\ evalRet' = <<c>>
         /\ firstHit' = IF firstHit = 0 /\ WithinTolerance(c, prev_energy[1])
                        THEN it ELSE firstHit
         /\ descending' = (descending /\ c <= prev_energy[1])
    /\ evalCalls' = evalCalls + 1
    /\ evalDone' = evalDone + 1
    /\ pc' = "test"
    /\ UNCHANGED <<it, theta, prev_energy, printed, output, exit, stepCalls,
                   stepDone, stepArg, stepRet, headTheta>>

\* cost_fn(theta) raises: energy keeps what it had
CostFnRaises ==
    /\ pc = "cost"
    /\ evalCalls' = evalCalls + 1
    /\ evalArg' = <<theta>>
    /\ pc' = "raised"
    /\ UNCHANGED <<it, theta, prev_energy, energy, printed, output, exit,
                   stepCalls, stepDone, evalDone, stepArg, stepRet, evalRet,
                   firstHit, descending, headTheta>>

\* if np.abs(energy - prev_energy) <= convergence_tolerance: break
TestBreak ==
    /\ pc = "test"
    /\ Converged(energy[1], prev_energy[1])
    /\ exit' = "break"
    /\ pc' = "print"
    /\ UNCHANGED <<it, theta, prev_energy, energy, printed, output, allHistory>>

\* the test fails: back to the loop header
TestContinue ==
    /\ pc = "test"
    /\ ~Converged(energy[1], prev_energy[1])
    /\ pc' = "for"
    /\ UNCHANGED <<it, theta, prev_energy, energy, printed, output, exit,
                   allHistory>>

\* print(... {energy:.8f} ...); print(... {theta:.4f} ...)
PrintFinal ==
    /\ pc = "print"
    /\ printed' = <<energy[1], theta>>
    /\ pc' = "output"
    /\ UNCHANGED <<it, theta, prev_energy, energy, output, exit, allHistory>>

\* Mutant: the output is the cost before the last step.
SetOutputPrev ==
    /\ pc = "output"
    /\ output' = prev_energy
    /\ pc' = "done"
    /\ UNCHANGED <<it, theta, prev_energy, energy, printed, exit, allHistory>>

\* output = float(energy)
SetOutput ==
    /\ pc = "output"
    /\ output' = energy
    /\ pc' = "done"
    /\ UNCHANGED <<it, theta, prev_energy, energy, printed, exit, allHistory>>

Next ==
    \/ ForNext
    \/ ForExhausted
    \/ StepAndCost
    \/ StepAndCostRaises
    \/ CostFn
    \/ CostFnRaises
    \/ TestBreak
    \/ TestContinue
    \/ PrintFinal
    \/ SetOutput

Spec == Init /\ [][Next]_vars

\* ----------------------------------------------------------------- claims

\* The loop has been left and the cells after it run or have run.
Terminated == pc \in {"print", "output", "done"}

\* OptimizationResult.iterationsRun: the loop bodies begun
iterationsRun == it

\* OptimizationResult.converged: the loop was left by its break
converged == exit = "break"

\* C1: the run stops at the first iteration whose cost change is within the
\* tolerance: from then on the iteration count and the numbers of optimizer
\* steps and cost evaluations stay at that iteration, the loop is left by
\* its break, and a break happens in no other case.
C1_StopsAtFirstHit ==
    /\ firstHit # 0 =>
         /\ iterationsRun = firstHit
         /\ stepCalls = firstHit
         /\ evalCalls = firstHit
         /\ pc \in {"test", "print", "output", "done"}
         /\ (Terminated => converged)
    /\ converged => firstHit # 0 /\ firstHit >= 1 /\ firstHit <= max_iterations

C1_Witness ==
    /\ pc = "done"
    /\ converged
    /\ firstHit = iterationsRun
    /\ iterationsRun >= 2
    /\ iterationsRun < max_iterations

\* C2: when the tolerance test failed in all max_iterations iterations the
\* run raises nothing, goes on to the cells after the loop, and has left the
\* loop unconverged after exactly max_iterations iterations.
C2_ExhaustedNotConverged ==
    (evalDone = max_iterations /\ firstHit = 0) =>
        /\ pc \in {"test", "for", "print", "output", "done"}
        /\ (pc # "done" => ENABLED Next)
        /\ (Terminated =>
              /\ ~converged
              /\ exit = "exhausted"
              /\ iterationsRun = max_iterations
              /\ stepDone = max_iterations)

C2_Witness ==
    /\ pc = "done"
    /\ exit = "exhausted"
    /\ firstHit = 0
    /\ output # Unbound

\* C3: once the loop has been left, the iteration count equals the number
\* of optimizer steps that completed and lies in 1..max_iterations.
C3_IterationsRunCountsSteps ==
    Terminated =>
        /\ iterationsRun = stepDone
        /\ iterationsRun >= 1
        /\ iterationsRun <= max_iterations

C3_Witness ==
    /\ pc = "done"
    /\ iterationsRun = 3
    /\ stepDone = 3

C5_FailFast ==
    /\ (stepCalls - stepDone) + (evalCalls - evalDone)
         = (IF pc = "raised" THEN 1 ELSE 0)
    /\ pc = "raised" =>
         /\ output = Unbound
         /\ printed = Unbound
         /\ exit = "none"
         /\ ~ENABLED Next

C5_Witness ==
    /\ pc = "raised"
    /\ evalCalls = evalDone + 1
    /\ iterationsRun >= 2
    /\ energy # Unbound

\* C6: the loop performs at most 100 optimizer steps (the notebook's text).
C6_AtMostDocumentedSteps == stepDone <= documented_max_steps

\* C9: after the cost evaluation of an iteration, the loop has called
\* step_and_cost once per iteration, the last time on the parameters the
\* iteration began with, and cost_fn once per iteration, the last time on
\* the parameters that step returned; prev_energy and energy are what these
\* two calls returned; and the loop was left by its break only if, and went
\* on only if not, these two values differ by at most the tolerance.
C9_TestComparesStepAndFreshCost ==
    (iterationsRun >= 1 /\ pc \in {"test", "for", "print", "output", "done"}) =>
        /\ stepCalls = iterationsRun
        /\ evalCalls = iterationsRun
        /\ stepArg = headTheta
        /\ evalArg = <<stepRet[1]>>
        /\ prev_energy = <<stepRet[2]>>
        /\ energy = evalRet
        /\ (converged => WithinTolerance(evalRet[1], stepRet[2]))
        /\ (pc = "for" \/ exit = "exhausted"
              => ~WithinTolerance(evalRet[1], stepRet[2]))

C9_Witness ==
    /\ pc = "test"
    /\ iterationsRun = 2
    /\ stepRet[1] # stepArg[1]
    /\ evalRet[1] > stepRet[2]

\* C10: when the run is over, the output is what the last cost_fn call
\* returned, that call was made on the final theta, the prints show the same
\* pair, and step and evaluation both come from the last iteration.
C10_FinalCostFromLastEvaluate ==
    pc = "done" =>
        /\ output = evalRet
        /\ evalArg = <<theta>>
        /\ theta = stepRet[1]
        /\ printed = <<evalRet[1], theta>>
        /\ evalCalls = evalDone
        /\ evalDone = iterationsRun
        /\ stepDone = iterationsRun

C10_Witness ==
    /\ pc = "done"
    /\ output # Unbound
    /\ output # prev_energy
    /\ iterationsRun >= 2

====
